---- MODULE Spec2Model ----
(***************************************************************************)
(* Model of src/src/license/utils.py: the bare-URL beautifier              *)
(* _format_links_in_text and the license renderer build_license_embeds.    *)
(*                                                                         *)
(* A Python str is a sequence of characters, each character a one-letter   *)
(* TLA+ string; a character outside ASCII is written by its code point     *)
(* ("u7981" is U+7981).  Python's None is the reserved value None below,   *)
(* which no str equals.  A dict is a function whose DOMAIN is its key set. *)
(***************************************************************************)
EXTENDS Naturals, Sequences, FiniteSets

VARIABLES
    CC_LICENSES,            \* catalog of CC licenses (constants module)
    SOFTWARE_LICENSES,      \* catalog of software licenses (constants module)
    license_details,        \* config.license_details, owned by the caller
    config0,                \* history: config.license_details at construction
    commercial_use_allowed, \* argument of the last call
    include_appendix,       \* argument of the last call
    phase,                  \* "idle", "returned" or "raised" (last call)
    license_type,           \* local: effective license type after line 234
    warning_message,        \* local: warning after line 234
    is_cc_license,          \* local after line 234
    is_software_license,    \* local, line 199
    saved_details,          \* local saved_details after line 234
    overlaid,               \* local display_details after line 242
    display_details,        \* local display_details after line 257
    embeds_to_send,         \* the returned list of sections
    text,                   \* input of _format_links_in_text
    once,                   \* _format_links_in_text(text)
    twice,                  \* _format_links_in_text(once)
    lphase                  \* "input", "once" or "twice"

vars == <<CC_LICENSES, SOFTWARE_LICENSES, license_details, config0,
          commercial_use_allowed, include_appendix, phase, license_type,
          warning_message, is_cc_license, is_software_license, saved_details,
          overlaid,
          display_details, embeds_to_send, text, once, twice, lphase>>

buildVars == <<CC_LICENSES, SOFTWARE_LICENSES, license_details, config0,
               commercial_use_allowed, include_appendix, phase, license_type,
               warning_message, is_cc_license, is_software_license, saved_details,
          overlaid,
               display_details, embeds_to_send>>

linkVars == <<text, once, twice, lphase>>

(***************************************************************************)
(* Bounds of the explored inputs.                                          *)
(***************************************************************************)
\* number of pieces concatenated into an author-entered term text
MaxPieces == 2
\* number of pieces concatenated into a text given to the beautifier
MaxLinkPieces == 3

(***************************************************************************)
(* Python values and str primitives.                                       *)
(***************************************************************************)
None == <<"None">>

IsStr(v) == v # None

\* truthiness of an Optional[str]
Truthy(v) == v # None /\ v # <<>>

\* s[i:i+len(p)] == p   (1-based i)
StartsWithAt(s, i, p) ==
    /\ i + Len(p) - 1 <= Len(s)
    /\ \A k \in 1..Len(p) : s[i + k - 1] = p[k]

\* p in s
Contains(s, p) == \E i \in 1..(Len(s) + 1) : StartsWithAt(s, i, p)

\* s.endswith(p)
EndsWith(s, p) == Len(p) <= Len(s) /\ StartsWithAt(s, Len(s) - Len(p) + 1, p)

RECURSIVE ReplaceFrom(_, _, _, _)
ReplaceFrom(s, i, old, new) ==
    IF i > Len(s) THEN <<>>
    ELSE IF StartsWithAt(s, i, old)
         THEN new \o ReplaceFrom(s, i + Len(old), old, new)
         ELSE <<s[i]>> \o ReplaceFrom(s, i + 1, old, new)

\* s.replace(old, new), old non-empty
Replace(s, old, new) == ReplaceFrom(s, 1, old, new)

\* characters str.strip() removes (those of the explored alphabet)
Whitespace == {" ", "\n"}

RECURSIVE LStrip(_)
LStrip(s) == IF s # <<>> /\ Head(s) \in Whitespace THEN LStrip(Tail(s)) ELSE s

RECURSIVE RStrip(_)
RStrip(s) ==
    IF s # <<>> /\ s[Len(s)] \in Whitespace
    THEN RStrip(SubSeq(s, 1, Len(s) - 1)) ELSE s

\* s.strip()
Strip(s) == RStrip(LStrip(s))

\* concatenation of a sequence of strs
RECURSIVE Flatten(_)
Flatten(ps) == IF ps = <<>> THEN <<>> ELSE Head(ps) \o Flatten(Tail(ps))

\* all sequences of at most n elements of S
RECURSIVE SeqsUpTo(_, _)
SeqsUpTo(S, n) ==
    IF n = 0 THEN {<<>>}
    ELSE LET shorter == SeqsUpTo(S, n - 1)
         IN  shorter \cup {Append(q, x) : q \in shorter, x \in S}

(***************************************************************************)
(* _format_links_in_text, lines 12-43.                                     *)
(***************************************************************************)
HTTP == <<"h", "t", "t", "p", ":", "/", "/">>
HTTPS == <<"h", "t", "t", "p", "s", ":", "/", "/">>
DISCORD == <<"d", "i", "s", "c", "o", "r", "d", ".", "c", "o", "m", "/">>
DISCORD_LABEL ==
    <<"u300C", "u70B9", "u51FB", "u67E5", "u770B", " ", "D", "i", "s", "c",
      "o", "r", "d", " ", "u94FE", "u63A5", "u5185", "u5BB9", "u300D">>

\* the class [^\s<>()] of url_pattern
UrlChar(c) == c \notin (Whitespace \cup {"<", ">", "(", ")"})

\* length of the scheme https?:// found at i, 0 when there is none
SchemeLenAt(s, i) ==
    IF StartsWithAt(s, i, HTTPS) THEN Len(HTTPS)
    ELSE IF StartsWithAt(s, i, HTTP) THEN Len(HTTP)
    ELSE 0

\* the lookbehind (?<!\]\() of url_pattern holds at i
NotAfterLinkOpen(s, i) == ~(i >= 3 /\ s[i - 2] = "]" /\ s[i - 1] = "(")

\* last index of the greedy run [^\s<>()]+ starting at i (i - 1 when empty)
RECURSIVE RunEnd(_, _)
RunEnd(s, i) ==
    IF i <= Len(s) /\ UrlChar(s[i]) THEN RunEnd(s, i + 1) ELSE i - 1

\* url_pattern matches at i: the index of the match's last character, else 0
MatchEnd(s, i) ==
    LET n == SchemeLenAt(s, i)
        e == RunEnd(s, i + n)
    IN  IF n > 0 /\ NotAfterLinkOpen(s, i) /\ e >= i + n THEN e ELSE 0

\* re.sub(r'^https?://', '', url)
StripScheme(url) == SubSeq(url, SchemeLenAt(url, 1) + 1, Len(url))

\* replacer, lines 23-40
replacer(url) ==
    IF Contains(url, DISCORD)
    THEN <<"[">> \o DISCORD_LABEL \o <<"]", "(">> \o url \o <<")">>
    ELSE LET stripped == StripScheme(url)
             link_text == IF EndsWith(stripped, <<"/">>)
                          THEN SubSeq(stripped, 1, Len(stripped) - 1)
                          ELSE stripped
         IN  <<"[">> \o link_text \o <<"]", "(">> \o url \o <<")">>

\* url_pattern.sub(replacer, text) from index i on
RECURSIVE SubFrom(_, _)
SubFrom(s, i) ==
    IF i > Len(s) THEN <<>>
    ELSE LET e == MatchEnd(s, i)
         IN  IF e > 0
             THEN replacer(SubSeq(s, i, e)) \o SubFrom(s, e + 1)
             ELSE <<s[i]>> \o SubFrom(s, i + 1)

_format_links_in_text(t) == IF ~Truthy(t) THEN t ELSE SubFrom(t, 1)

\* pieces the explored beautifier inputs are built from
LinkPieces ==
    {HTTP, HTTPS, DISCORD, <<"a">>, <<"/">>, <<" ">>, <<"(">>, <<")">>,
     <<"[">>, <<"]">>}

LinkTexts == {Flatten(ps) : ps \in SeqsUpTo(LinkPieces, MaxLinkPieces)}

(***************************************************************************)
(* str.format(license_type=...), line 257 (CPython's format-string         *)
(* iterator).  A call either returns a str or raises (KeyError for an      *)
(* unknown field name, IndexError for an empty or numeric one, ValueError  *)
(* for an unbalanced brace); Raised stands for every exception.  The       *)
(* operator is exact on texts in which the letters of "license_type" occur *)
(* only inside the placeholder {license_type} and "!" does not occur.      *)
(***************************************************************************)
Raised == <<"Raised">>

PLACEHOLDER ==
    <<"{", "l", "i", "c", "e", "n", "s", "e", "_", "t", "y", "p", "e", "}">>
FIELD_NAME == SubSeq(PLACEHOLDER, 2, Len(PLACEHOLDER) - 1)

\* x + rest, unless the rest of the scan raised
Emit(x, rest) == IF rest = Raised THEN Raised ELSE x \o rest

\* index of the first "]" at or after j, 0 when there is none
RECURSIVE NextClose(_, _)
NextClose(s, j) ==
    IF j > Len(s) THEN 0
    ELSE IF s[j] = "]" THEN j
    ELSE NextClose(s, j + 1)

\* parse_field: index of the character ending the field name that starts
\* at j ("}", ":" or "!"), 0 when the scan raises ValueError
RECURSIVE NameEnd(_, _)
NameEnd(s, j) ==
    IF j > Len(s) THEN 0
    ELSE IF s[j] = "{" THEN 0
    ELSE IF s[j] \in {"}", ":", "!"} THEN j
    ELSE IF s[j] = "["
         THEN LET k == NextClose(s, j + 1)
              IN  IF k = 0 THEN 0 ELSE NameEnd(s, k + 1)
         ELSE NameEnd(s, j + 1)

\* parse_field: index of the "}" closing a format spec scanned from j with
\* `count` open braces, 0 when the string ends first (ValueError)
RECURSIVE SpecEnd(_, _, _)
SpecEnd(s, j, count) ==
    IF j > Len(s) THEN 0
    ELSE IF s[j] = "{" THEN SpecEnd(s, j + 1, count + 1)
    ELSE IF s[j] = "}"
         THEN IF count = 1 THEN j ELSE SpecEnd(s, j + 1, count - 1)
         ELSE SpecEnd(s, j + 1, count)

\* the value a replacement field renders, given the only keyword argument
FieldValue(name, spec, repl) ==
    IF name = FIELD_NAME /\ spec = <<>> THEN repl ELSE Raised

RECURSIVE FormatFrom(_, _, _)
FormatFrom(s, i, repl) ==
    IF i > Len(s) THEN <<>>
    ELSE IF s[i] \notin {"{", "}"} THEN Emit(<<s[i]>>, FormatFrom(s, i + 1, repl))
    ELSE IF i = Len(s) THEN Raised
    ELSE IF s[i + 1] = s[i] THEN Emit(<<s[i]>>, FormatFrom(s, i + 2, repl))
    ELSE IF s[i] = "}" THEN Raised
    ELSE LET t == NameEnd(s, i + 1)
         IN  IF t = 0 \/ s[t] = "!" THEN Raised
             ELSE IF s[t] = "}"
                  THEN LET v == FieldValue(SubSeq(s, i + 1, t - 1), <<>>, repl)
                       IN  IF v = Raised THEN Raised
                           ELSE Emit(v, FormatFrom(s, t + 1, repl))
             ELSE LET e == SpecEnd(s, t + 1, 1)
                  IN  IF e = 0 THEN Raised
                      ELSE LET v == FieldValue(SubSeq(s, i + 1, t - 1),
                                               SubSeq(s, t + 1, e - 1), repl)
                           IN  IF v = Raised THEN Raised
                               ELSE Emit(v, FormatFrom(s, e + 1, repl))

\* s.format(license_type=repl)
Format(s, repl) == FormatFrom(s, 1, repl)

\* pieces the explored author-entered term texts are built from
TermPieces == {PLACEHOLDER, <<"{">>, <<"}">>, <<"x">>, HTTPS \o <<"a", "/">>}

TermTexts == {Flatten(ps) : ps \in SeqsUpTo(TermPieces, MaxPieces)}

(***************************************************************************)
(* dict primitives.                                                        *)
(***************************************************************************)
\* d.get(k, default)
Get(d, k, default) == IF k \in DOMAIN d THEN d[k] ELSE default

\* d.update(e)
Update(d, e) ==
    [k \in DOMAIN d \cup DOMAIN e |-> IF k \in DOMAIN e THEN e[k] ELSE d[k]]

\* d[k] = v
Put(d, k, v) == [x \in DOMAIN d \cup {k} |-> IF x = k THEN v ELSE d[x]]

(***************************************************************************)
(* Literals of build_license_embeds.                                       *)
(***************************************************************************)
CUSTOM == <<"c", "u", "s", "t", "o", "m">>
\* "禁止"
FORBID == <<"u7981", "u6B62">>
\* "未设置"
UNSET == <<"u672A", "u8BBE", "u7F6E">>
\* "无"
NONE_TEXT == <<"u65E0">>
\* "相同的条款"
SAME_TERMS == <<"u76F8", "u540C", "u7684", "u6761", "u6B3E">>
\* "**自定义协议**"
CUSTOM_LABEL ==
    <<"*", "*", "u81EA", "u5B9A", "u4E49", "u534F", "u8BAE", "*", "*">>
NC == <<"N", "C">>
CC_BY == <<"C", "C", " ", "B", "Y">>
CC_BY_NC == <<"C", "C", " ", "B", "Y", "-", "N", "C">>

(***************************************************************************)
(* The catalogs CC_LICENSES and SOFTWARE_LICENSES of src.license.constants *)
(* (imported at line 8; the module itself is not among the sources).  A    *)
(* catalog maps a license name to its fixed fields.                        *)
(***************************************************************************)
CC_BY_40 == <<"C", "C", " ", "B", "Y", " ", "4", ".", "0">>
CC_BY_NC_40 == <<"C", "C", " ", "B", "Y", "-", "N", "C", " ", "4", ".", "0">>
CC_BY_SA_40 == <<"C", "C", " ", "B", "Y", "-", "S", "A", " ", "4", ".", "0">>
CC_BY_NC_SA_40 ==
    <<"C", "C", " ", "B", "Y", "-", "N", "C", "-", "S", "A", " ", "4", ".", "0">>
CC0_10 == <<"C", "C", "0", " ", "1", ".", "0">>
MIT == <<"M", "I", "T">>
\* a license name of neither catalog
GPL == <<"G", "P", "L">>
\* "允许"
ALLOW == <<"u5141", "u8BB8">>

\* the fixed fields of a CC license: url and the three term texts
CCEntry(name) ==
    [k \in {"url", "reproduce", "derive", "commercial"} |->
        CASE k = "url" -> HTTPS \o <<"c", "c", "/">> \o name
          [] k = "reproduce" -> ALLOW
          [] k = "derive" ->
                IF Contains(name, <<"S", "A">>)
                THEN ALLOW \o <<" ">> \o PLACEHOLDER ELSE ALLOW
          [] OTHER -> IF Contains(name, NC) THEN FORBID ELSE ALLOW]

\* the fixed fields of a software license: url and full_text
SoftwareEntry(name) ==
    [k \in {"url", "full_text"} |->
        IF k = "url" THEN HTTPS \o <<"o", "s", "/">> \o name
        ELSE <<"t", "e", "x", "t", " ">> \o name]

CCCatalog(names) == [n \in names |-> CCEntry(n)]

\* the catalogs explored: the four "CC BY" licenses, one without the NC
\* sibling of "CC BY-SA 4.0", and one extended by "CC0 1.0" (the addition
\* the comment at line 223 foresees)
CCCatalogs ==
    {CCCatalog({CC_BY_40, CC_BY_NC_40, CC_BY_SA_40, CC_BY_NC_SA_40}),
     CCCatalog({CC_BY_40, CC_BY_NC_40, CC_BY_SA_40}),
     CCCatalog({CC_BY_40, CC_BY_NC_40, CC_BY_SA_40, CC_BY_NC_SA_40, CC0_10})}

SoftwareCatalog == [n \in {MIT} |-> SoftwareEntry(n)]

(***************************************************************************)
(* build_license_embeds, lines 184-357.                                    *)
(***************************************************************************)
\* line 196: the working dict is a copy, so writes to it leave
\* config.license_details (orig) as it was
StoredAfterNoCopy(orig, working) == working
StoredAfter(orig, working) == orig

\* line 206
IsCustomType(t) == t = CUSTOM

\* line 207 (and 226)
ForceCommercialKeep(saved) == saved
ForceCommercial(saved) == Put(saved, "commercial", FORBID)

\* line 210
NeedsDowngradeAnyCC(t, cc) == t \in DOMAIN cc
NeedsDowngrade(t, cc) == t \in DOMAIN cc /\ ~Contains(t, NC)

\* line 215
potential_nc_version(t) == Replace(t, CC_BY, CC_BY_NC)

\* lines 230-234: the f-string; its fixed text is kept as three characters
warning_text(original, adjusted) ==
    <<"<warning>">> \o original \o <<"<adjusted to>">> \o adjusted
        \o <<"</warning>">>

\* lines 196-234: the locals after the policy check
Resolve(details, allowed, cc, sw) ==
    LET t == Get(details, "type", CUSTOM)
        base == [license_type |-> t,
                 saved_details |-> details,
                 is_cc_license |-> t \in DOMAIN cc,
                 is_software_license |-> t \in DOMAIN sw,
                 warning_message |-> None]
    IN  IF allowed THEN base
        ELSE IF IsCustomType(t)
             THEN [base EXCEPT !.saved_details = ForceCommercial(details)]
        ELSE IF NeedsDowngrade(t, cc)
             THEN LET nc == potential_nc_version(t)
                  IN  IF nc \in DOMAIN cc
                      THEN [base EXCEPT
                               !.license_type = nc,
                               !.saved_details = Put(details, "type", nc),
                               !.is_cc_license = TRUE,
                               !.warning_message = warning_text(t, nc)]
                      ELSE [base EXCEPT
                               !.license_type = CUSTOM,
                               !.saved_details =
                                   ForceCommercial(Put(details, "type", CUSTOM)),
                               !.is_cc_license = FALSE,
                               !.warning_message = warning_text(t, CUSTOM)]
        ELSE base

\* lines 240 and 242: dict.update with the catalog entry
OverlayStoredWins(d, entry) == Update(entry, d)
OverlayEntry(d, entry) == Update(d, entry)

\* lines 236-242: [raised, details]; a catalog lookup of a missing key raises
Overlay(r, cc, sw) ==
    IF r.is_cc_license
    THEN IF r.license_type \in DOMAIN cc
         THEN [raised |-> FALSE,
               details |-> OverlayEntry(r.saved_details, cc[r.license_type])]
         ELSE [raised |-> TRUE, details |-> r.saved_details]
    ELSE IF r.is_software_license
    THEN IF r.license_type \in DOMAIN sw
         THEN [raised |-> FALSE,
               details |-> OverlayEntry(r.saved_details, sw[r.license_type])]
         ELSE [raised |-> TRUE, details |-> r.saved_details]
    ELSE [raised |-> FALSE, details |-> r.saved_details]

\* lines 246-252
placeholder_replacement(r) ==
    IF r.is_cc_license THEN r.license_type ELSE SAME_TERMS

TermKeys == <<"reproduce", "derive", "commercial">>

\* lines 255-257 from the i-th key on: [raised, details]
RECURSIVE SubstituteFrom(_, _, _)
SubstituteFrom(d, i, repl) ==
    IF i > Len(TermKeys) THEN [raised |-> FALSE, details |-> d]
    ELSE LET key == TermKeys[i]
         IN  IF key \in DOMAIN d /\ IsStr(d[key])
             THEN LET v == Format(d[key], repl)
                  IN  IF v = Raised THEN [raised |-> TRUE, details |-> d]
                      ELSE SubstituteFrom(Put(d, key, v), i + 1, repl)
             ELSE SubstituteFrom(d, i + 1, repl)

Substitute(d, repl) == SubstituteFrom(d, 1, repl)

\* "**{license_type}**"
Bold(t) == <<"*", "*">> \o t \o <<"*", "*">>

\* one add_field call
Field(name, value, inline) == [name |-> name, value |-> value, inline |-> inline]

\* lines 290 and 297-300: the value given to add_field for a term key
TermValue(d, key) == _format_links_in_text(Get(d, key, UNSET))

\* lines 294-296: the 协议类型 field of a CC or custom license
TypeFieldAlwaysName(is_cc, t) == Bold(t)
TypeField(is_cc, t) == IF is_cc THEN Bold(t) ELSE CUSTOM_LABEL

\* lines 303-307: the 附加条款 field
NotesFields(r, d) ==
    LET notes == Get(d, "notes", None)
    IN  IF ~r.is_cc_license /\ Truthy(notes) /\ Strip(notes) # <<>>
           /\ notes # NONE_TEXT
        THEN <<Field("notes", _format_links_in_text(notes), FALSE)>>
        ELSE <<>>

\* lines 288-307: the fields of the main section.  Field names stand for
\* the literals: type 协议类型, attribution 版权归属 / 作者署名, full_text
\* 核心条款, reproduce 二次传播, derive 二次创作, commercial 商业用途,
\* notes 附加条款
MainFields(r, d) ==
    (IF r.is_software_license
     THEN <<Field("type", Bold(r.license_type) \o <<" ", "(", "u8F6F", "u4EF6", ")">>, FALSE),
            Field("attribution", TermValue(d, "attribution"), FALSE),
            Field("full_text", d["full_text"], FALSE)>>
     ELSE <<Field("type", TypeField(r.is_cc_license, r.license_type), FALSE),
            Field("attribution", TermValue(d, "attribution"), FALSE),
            Field("reproduce", TermValue(d, "reproduce"), TRUE),
            Field("derive", TermValue(d, "derive"), TRUE),
            Field("commercial", TermValue(d, "commercial"), TRUE)>>)
    \o NotesFields(r, d)

\* lines 259-269: the parts of the main description; the fixed wording of
\* each sentence is kept as one character
MainDescription(r, d) ==
    <<<<"<publisher>">>>>
    \o (IF r.is_cc_license
        THEN <<<<"<cc license>">> \o r.license_type \o <<"|">> \o d["url"]>>
        ELSE IF r.is_software_license
        THEN <<<<"<software license>">> \o r.license_type \o <<"|">> \o d["url"]>>
        ELSE <<>>)
    \o (IF Truthy(r.warning_message)
        THEN <<<<"\n", ">", " ">> \o r.warning_message>>
        ELSE <<>>)

\* lines 275-318
MainEmbed(r, d) ==
    [title |-> "main",
     color |-> IF Truthy(r.warning_message) THEN "orange" ELSE "gold",
     description |-> MainDescription(r, d),
     fields |-> MainFields(r, d)]

\* lines 322-340
AppendixEmbed(r) ==
    [title |-> "appendix",
     color |-> "light_grey",
     description |->
         IF r.is_cc_license
         THEN <<<<"<effectiveness rules>">>, <<"\n", "\n", "<cc disclaimer>">>>>
         ELSE <<<<"<effectiveness rules>">>>>,
     fields |-> <<>>]

\* line 345
HasPostscript(ps) == Truthy(ps) /\ Strip(ps) # <<>> /\ ps # NONE_TEXT

\* lines 346-355
PostscriptEmbed(ps) ==
    [title |-> "postscript", color |-> "blue", description |-> <<ps>>,
     fields |-> <<>>]

\* lines 272-357: the returned list
Embeds(r, d, appendix) ==
    LET ps == Get(d, "personal_statement", None)
    IN  <<MainEmbed(r, d)>>
        \o (IF appendix THEN <<AppendixEmbed(r)>> ELSE <<>>)
        \o (IF HasPostscript(ps) THEN <<PostscriptEmbed(ps)>> ELSE <<>>)

\* the whole call: the locals at each stage, whether it raised, and the
\* returned list (empty when it raised)
Build(details, allowed, appendix, cc, sw) ==
    LET r == Resolve(details, allowed, cc, sw)
        o == Overlay(r, cc, sw)
        s == IF o.raised THEN o
             ELSE Substitute(o.details, placeholder_replacement(r))
    IN  [resolved |-> r,
         overlaid |-> o.details,
         display_details |-> s.details,
         raised |-> s.raised,
         embeds |-> IF s.raised THEN <<>> ELSE Embeds(r, s.details, appendix)]

(***************************************************************************)
(* The explored configurations: config.license_details as the config      *)
(* store may hold it.  Absent marks a key the dict does not have.          *)
(***************************************************************************)
Absent == <<"Absent">>

DetailKeys ==
    {"type", "attribution", "reproduce", "derive", "commercial", "notes",
     "personal_statement", "url"}

MkDetails(choice) ==
    [k \in {x \in DetailKeys : choice[x] # Absent} |-> choice[k]]

TypeValues ==
    {Absent, None, CUSTOM, CC_BY_40, CC_BY_NC_40, CC_BY_SA_40, CC_BY_NC_SA_40,
     CC0_10, MIT, GPL}

STALE_URL == HTTP \o <<"o", "l", "d">>

\* configurations that vary the author-entered terms
TermConfigs ==
    {MkDetails(c) : c \in
        [type : TypeValues,
         attribution : {Absent},
         reproduce : TermTexts \cup {Absent},
         derive : {Absent},
         commercial : {Absent, ALLOW, <<"{">>},
         notes : {Absent},
         personal_statement : {Absent},
         url : {Absent}]}

\* configurations that vary the remaining keys
SectionConfigs ==
    {MkDetails(c) : c \in
        [type : TypeValues,
         attribution : {Absent, None, HTTPS \o <<"a", "/">>},
         reproduce : {None},
         derive : {None, PLACEHOLDER},
         commercial : {None},
         notes : {Absent, NONE_TEXT, <<"x">>},
         personal_statement :
             {Absent, None, <<>>, <<" ">>, NONE_TEXT, <<"x">>},
         url : {Absent, STALE_URL}]}

Configs == TermConfigs \cup SectionConfigs

(***************************************************************************)
(* Specification of build_license_embeds: a configuration and catalogs,    *)
(* then any sequence of calls on that configuration.                       *)
(***************************************************************************)
Init ==
    /\ CC_LICENSES \in CCCatalogs
    /\ SOFTWARE_LICENSES = SoftwareCatalog
    /\ license_details \in Configs
    /\ config0 = license_details
    /\ commercial_use_allowed = TRUE
    /\ include_appendix = TRUE
    /\ phase = "idle"
    /\ license_type = None
    /\ warning_message = None
    /\ is_cc_license = FALSE
    /\ is_software_license = FALSE
    /\ saved_details = license_details
    /\ overlaid = license_details
    /\ display_details = license_details
    /\ embeds_to_send = <<>>
    /\ text = <<>>
    /\ once = <<>>
    /\ twice = <<>>
    /\ lphase = "off"

build_license_embeds ==
    \E allowed \in BOOLEAN, appendix \in BOOLEAN :
        \E b \in {Build(license_details, allowed, appendix, CC_LICENSES,
                        SOFTWARE_LICENSES)} :
            /\ commercial_use_allowed' = allowed
            /\ include_appendix' = appendix
            /\ license_type' = b.resolved.license_type
            /\ warning_message' = b.resolved.warning_message
            /\ is_cc_license' = b.resolved.is_cc_license
            /\ is_software_license' = b.resolved.is_software_license
            /\ saved_details' = b.resolved.saved_details
            /\ overlaid' = b.overlaid
            /\ display_details' = b.display_details
            /\ embeds_to_send' = b.embeds
            /\ phase' = IF b.raised THEN "raised" ELSE "returned"
            /\ license_details' = StoredAfter(license_details, b.display_details)
            /\ UNCHANGED <<CC_LICENSES, SOFTWARE_LICENSES, config0>>
            /\ UNCHANGED linkVars

Next == build_license_embeds

Spec == Init /\ [][Next]_vars

(***************************************************************************)
(* Specification of _format_links_in_text: a text, beautified once and     *)
(* then once more.                                                         *)
(***************************************************************************)
LinkInit ==
    /\ CC_LICENSES = CCCatalog({})
    /\ SOFTWARE_LICENSES = SoftwareCatalog
    /\ license_details = MkDetails([k \in DetailKeys |-> Absent])
    /\ config0 = license_details
    /\ commercial_use_allowed = TRUE
    /\ include_appendix = TRUE
    /\ phase = "idle"
    /\ license_type = None
    /\ warning_message = None
    /\ is_cc_license = FALSE
    /\ is_software_license = FALSE
    /\ saved_details = license_details
    /\ overlaid = license_details
    /\ display_details = license_details
    /\ embeds_to_send = <<>>
    /\ text \in LinkTexts
    /\ once = <<>>
    /\ twice = <<>>
    /\ lphase = "input"

FormatOnce ==
    /\ lphase = "input"
    /\ once' = _format_links_in_text(text)
    /\ lphase' = "once"
    /\ UNCHANGED <<text, twice>>
    /\ UNCHANGED buildVars

FormatAgain ==
    /\ lphase = "once"
    /\ twice' = _format_links_in_text(once)
    /\ lphase' = "twice"
    /\ UNCHANGED <<text, once>>
    /\ UNCHANGED buildVars

LinkNext == FormatOnce \/ FormatAgain

LinkSpec == LinkInit /\ [][LinkNext]_vars

(***************************************************************************)
(* Properties.  After a call the state holds its arguments, its locals at  *)
(* each stage and its outcome; license_details is the configuration the    *)
(* call was given.                                                         *)
(***************************************************************************)
Called == phase # "idle"

\* the type the call read at line 197
StoredType == Get(license_details, "type", CUSTOM)

\* the main section of a returned list
MainSection == embeds_to_send[1]

\* the values of the main section's fields named name
FieldValues(name) ==
    {MainSection.fields[i].value :
        i \in {j \in 1..Len(MainSection.fields) :
                  MainSection.fields[j].name = name}}

\* a description part that is the warning blockquote of line 269
IsBlockquote(part) == StartsWithAt(part, 1, <<"\n", ">", " ">>)

HasBlockquote ==
    \E i \in 1..Len(MainSection.description) :
        IsBlockquote(MainSection.description[i])

\* what a caller observes of a call: the exception or the sections
Outcome(b) == [raised |-> b.raised, embeds |-> b.embeds]

LastOutcome == [raised |-> phase = "raised", embeds |-> embeds_to_send]

\* the call's stored type is a CC key without the NC marker
CommercialCC ==
    /\ "type" \in DOMAIN license_details
    /\ StoredType \in DOMAIN CC_LICENSES
    /\ ~Contains(StoredType, NC)

\* C1: with commercial use disallowed, a stored CC type without "NC" never
\* stays the effective type: the effective type is an NC key of the
\* catalog, or "custom" with the commercial field forced to "禁止".
C1_NeverKeepsCommercialCC ==
    (Called /\ ~commercial_use_allowed /\ CommercialCC) =>
        /\ license_type # StoredType
        /\ \/ /\ license_type \in DOMAIN CC_LICENSES
              /\ Contains(license_type, NC)
           \/ /\ license_type = CUSTOM
              /\ Get(saved_details, "commercial", None) = FORBID

\* C2: with commercial use disallowed and the stored type "custom" or
\* absent, the effective type is "custom", the commercial field is "禁止"
\* whatever was stored, there is no warning, and a returned main section
\* shows "禁止" and carries no warning blockquote.
C2_CustomCommercialForced ==
    (Called /\ ~commercial_use_allowed /\ StoredType = CUSTOM) =>
        /\ license_type = CUSTOM
        /\ Get(saved_details, "commercial", None) = FORBID
        /\ Get(display_details, "commercial", None) = FORBID
        /\ warning_message = None
        /\ phase = "returned" =>
              /\ FieldValues("commercial") = {FORBID}
              /\ FieldValues("type") = {CUSTOM_LABEL}
              /\ ~HasBlockquote
              /\ MainSection.color = "gold"

C2_Witness ==
    /\ phase = "returned"
    /\ ~commercial_use_allowed
    /\ "type" \notin DOMAIN license_details
    /\ Get(license_details, "commercial", None) = <<"{">>
    /\ FieldValues("commercial") = {FORBID}

\* the call's stored type is a key of neither catalog (and is not "custom")
Unrecognized ==
    /\ "type" \in DOMAIN license_details
    /\ StoredType \notin DOMAIN CC_LICENSES
    /\ StoredType \notin DOMAIN SOFTWARE_LICENSES
    /\ StoredType # CUSTOM

\* the outcome of the same call on the details with type replaced by "custom"
AsCustom(allowed) ==
    Outcome(Build(Put(license_details, "type", CUSTOM), allowed,
                  include_appendix, CC_LICENSES, SOFTWARE_LICENSES))

\* C3 as stated: for a type of neither catalog and either value of
\* commercial_use_allowed, the call produces what it produces for the same
\* details with type "custom" under the same commercial_use_allowed.
C3_UnrecognizedAsCustom ==
    (Called /\ Unrecognized) => LastOutcome = AsCustom(commercial_use_allowed)

\* C3 amended: for a type of neither catalog and either value of
\* commercial_use_allowed, the call produces what it produces for the same
\* details with type "custom" and commercial use allowed: the custom
\* rendering, without the forcing of the commercial field.
C3_UnrecognizedAsCustomAllowed ==
    (Called /\ Unrecognized) =>
        /\ LastOutcome = AsCustom(TRUE)
        /\ warning_message = None

C3_Witness ==
    /\ phase = "returned"
    /\ ~commercial_use_allowed
    /\ StoredType = GPL
    /\ Get(license_details, "commercial", None) = ALLOW
    /\ FieldValues("commercial") = {ALLOW}
    /\ FieldValues("type") = {CUSTOM_LABEL}

\* the catalog entry of the effective type
EffectiveEntry ==
    IF license_type \in DOMAIN CC_LICENSES THEN CC_LICENSES[license_type]
    ELSE SOFTWARE_LICENSES[license_type]

\* C4: whenever the effective type is a catalog key, every field its entry
\* defines has the catalog's value in the details after the overlay,
\* whatever was stored, and the returned details hold that value (the
\* three term texts with the placeholder substituted).
C4_CatalogWins ==
    (Called /\ license_type \in DOMAIN CC_LICENSES \cup DOMAIN SOFTWARE_LICENSES) =>
        \A k \in DOMAIN EffectiveEntry :
            /\ k \in DOMAIN overlaid
            /\ overlaid[k] = EffectiveEntry[k]
            /\ phase = "returned" =>
                  display_details[k] =
                      IF k \in {"reproduce", "derive", "commercial"}
                      THEN Format(EffectiveEntry[k], license_type)
                      ELSE EffectiveEntry[k]

C4_Witness ==
    /\ phase = "returned"
    /\ ~commercial_use_allowed
    /\ StoredType = CC_BY_SA_40
    /\ license_type = CC_BY_NC_SA_40
    /\ Get(license_details, "url", None) = STALE_URL
    /\ Get(license_details, "derive", None) = PLACEHOLDER
    /\ display_details["url"] = CC_LICENSES[CC_BY_NC_SA_40]["url"]
    /\ display_details["derive"] = ALLOW \o <<" ">> \o CC_BY_NC_SA_40

\* C5: for a stored CC type that already contains "NC", disallowing
\* commercial use changes nothing: type, details and outcome are those of
\* the same call with commercial use allowed, and there is no warning.
C5_NCIsNoOp ==
    (Called /\ ~commercial_use_allowed /\ "type" \in DOMAIN license_details
        /\ StoredType \in DOMAIN CC_LICENSES /\ Contains(StoredType, NC)) =>
        \E b \in {Build(license_details, TRUE, include_appendix, CC_LICENSES,
                        SOFTWARE_LICENSES)} :
            /\ license_type = StoredType
            /\ license_type = b.resolved.license_type
            /\ saved_details = license_details
            /\ display_details = b.display_details
            /\ LastOutcome = Outcome(b)
            /\ warning_message = None

C5_Witness ==
    /\ phase = "returned"
    /\ ~commercial_use_allowed
    /\ StoredType = CC_BY_NC_SA_40
    /\ license_type = CC_BY_NC_SA_40
    /\ ~HasBlockquote

\* C6: a displayed term field whose key is missing from the details, or
\* present with the value None, is rendered as the placeholder "未设置".
C6_UnsetPlaceholder ==
    (phase = "returned") =>
        \A k \in {"attribution", "reproduce", "derive", "commercial"} :
            (k \notin DOMAIN display_details \/ display_details[k] = None) =>
                FieldValues(k) \subseteq {UNSET}

\* C7: the call never raises, and the substitution step replaces the
\* same-license placeholder and nothing else.
C7_NeverRaises ==
    /\ phase # "raised"
    /\ phase = "returned" =>
          \A k \in {"reproduce", "derive", "commercial"} :
              (k \in DOMAIN overlaid /\ IsStr(overlaid[k])) =>
                  display_details[k] =
                      Replace(overlaid[k], PLACEHOLDER,
                              IF is_cc_license THEN license_type ELSE SAME_TERMS)

\* C8: beautifying a beautified text changes nothing.
C8_Idempotent == (lphase = "twice") => twice = once

\* the titles of the returned sections, in order
Titles == [i \in 1..Len(embeds_to_send) |-> embeds_to_send[i].title]

\* C9: every call returns main, then the appendix exactly when
\* include_appendix, then the postscript exactly when personal_statement is
\* non-empty after stripping and is not "无".
C9_SectionOrder ==
    Called =>
        /\ phase = "returned"
        /\ Titles =
              <<"main">>
              \o (IF include_appendix THEN <<"appendix">> ELSE <<>>)
              \o (IF LET ps == Get(license_details, "personal_statement", None)
                     IN  Truthy(ps) /\ Strip(ps) # <<>> /\ ps # NONE_TEXT
                  THEN <<"postscript">> ELSE <<>>)

====
